---- MODULE Spec2Model ----
(***************************************************************************)
(* Model of finger-counter/src/App.jsx: the App component, its per-frame   *)
(* onResults callback (registered once with MediaPipe Holistic), the       *)
(* canvas overlay and HUD, the theme toggle and the mount effect with its  *)
(* cleanup.                                                                *)
(*                                                                         *)
(* Numbers.  Landmark coordinates are normalised floats in the source; here*)
(* a coordinate is an integer number of thousandths (0..1000).  A distance *)
(* is an integer number of millionths, so that the source's 1e-6 guard is  *)
(* the integer 1.  The inputs enumerated below only produce distances that *)
(* are exact in these units.  A mouth-openness ratio is kept per mille.    *)
(*                                                                         *)
(* JavaScript values.  A landmark, an array and null are tagged records:   *)
(* [t |-> "null"], [t |-> "pt", x, y], [t |-> "arr", len, a] where a maps  *)
(* the 0-based indices the program reads to the elements.                  *)
(***************************************************************************)
EXTENDS Integers, Sequences, FiniteSets, TLC

\* ------------------------------------------------------------------ bounds
\* onResults calls in one behaviour of Spec
MaxFrames == 2
\* onResults calls of each of the two runs in SpecPair
MaxPairFrames == 2
\* animate() ticks in one behaviour
MaxPulse == 3

\* --------------------------------------------------------------- JS values
Null == [t |-> "null"]
Pt(x, y) == [t |-> "pt", x |-> x, y |-> y]
Arr(n, f) == [t |-> "arr", len |-> n, a |-> f]

\* `v` in a boolean position: null is falsy, every object is truthy
Truthy(v) == v.t # "null"
\* `v && v.length`: a landmark has no length property (undefined, falsy)
TruthyLength(v) == v.t = "arr" /\ v.len # 0
\* `v && v.length === 21`
IsLength21(v) == v.t = "arr" /\ v.len = 21
\* `v[0]` of an array
First(v) == v.a[0]

\* ------------------------------------------------------------ face indices
RIGHT_EYE == <<33, 160, 158, 133, 153, 144>>
LEFT_EYE == <<362, 385, 387, 263, 373, 380>>
MOUTH_UP == 13
MOUTH_DOWN == 14
FACE_LEFT == 234
FACE_RIGHT == 454
\* pose[0] and face[1] are taken as the nose
NOSE_FACE == 1
\* TIP and PIP of countFingersFromHand, 1-based here: TIP[i+1] is the source's TIP[i]
TIP == <<4, 8, 12, 16, 20>>
PIP == <<2, 6, 10, 14, 18>>

\* -------------------------------------------------------------- arithmetic
Abs(n) == IF n < 0 THEN -n ELSE n
Max(a, b) == IF a >= b THEN a ELSE b

RECURSIVE SqrtBetween(_, _, _)
\* the largest r in lo..hi with r*r <= n (bisection)
SqrtBetween(n, lo, hi) ==
    IF lo >= hi THEN lo
    ELSE LET mid == (lo + hi + 1) \div 2
         IN IF mid * mid <= n THEN SqrtBetween(n, mid, hi)
            ELSE SqrtBetween(n, lo, mid - 1)

\* Math.sqrt on a sum of squares of thousandths
Sqrt(n) == SqrtBetween(n, 0, 1500)

\* the 1e-6 of Math.max(1e-6, .), in millionths
EPS == 1

\* distance(a,b): Euclidean distance, in millionths
distance(a, b) ==
    LET dx == a.x - b.x
        dy == a.y - b.y
    IN 1000 * Sqrt(dx * dx + dy * dy)

\* computeEAR(face, indices): (A + B) / (2.0 * Math.max(1e-6, C)) as a fraction
computeEAR(face, indices) ==
    LET p1 == face.a[indices[1]]
        p2 == face.a[indices[2]]
        p3 == face.a[indices[3]]
        p4 == face.a[indices[4]]
        p5 == face.a[indices[5]]
        p6 == face.a[indices[6]]
        A == distance(p2, p6)
        B == distance(p3, p5)
        C == distance(p1, p4)
    IN [num |-> A + B, den |-> 2 * Max(EPS, C)]

\* ear > 0.20
EarOpen(ear) == ear.num * 100 > 20 * ear.den

\* mouthOpen of onResults, per mille
MouthOpen(face) ==
    (distance(face.a[MOUTH_UP], face.a[MOUTH_DOWN]) * 1000)
        \div Max(EPS, distance(face.a[FACE_LEFT], face.a[FACE_RIGHT]))

RECURSIVE SumSeq(_)
SumSeq(s) == IF s = <<>> THEN 0 ELSE Head(s) + SumSeq(Tail(s))

\* mBuf.slice(1).map((x,i) => Math.abs(x.v - mBuf[i].v))
Diffs(buf) == [i \in 1..(Len(buf) - 1) |-> Abs(buf[i + 1] - buf[i])]

\* avg > 0.03 && meanDiff > 0.008 over a non-empty buffer (per mille values)
SpeakingOf(buf) ==
    LET diffs == Diffs(buf)
    IN /\ SumSeq(buf) > 30 * Len(buf)
       /\ Len(diffs) > 0
       /\ SumSeq(diffs) > 8 * Len(diffs)

\* if (mBuf.length > 30) mBuf.shift(); mBuf.push({t: now, v: mouthOpen})
\* (the time stamp t is never read and is left out)
PushMouth(buf, v) ==
    Append(IF Len(buf) > 30 THEN Tail(buf) ELSE buf, v)

\* countFingersFromHand(landmarks) on an array of 21 landmarks
countFingersFromHand(landmarks) ==
    LET up(i) == IF landmarks.a[TIP[i + 1]].y < landmarks.a[PIP[i + 1]].y THEN 1 ELSE 0
        thumbTip == landmarks.a[4]
        thumbIp == landmarks.a[3]
        palmX == landmarks.a[0].x
        thumb == IF /\ Abs(thumbTip.x - palmX) > 30
                    /\ \/ (thumbTip.x < palmX /\ thumbIp.x < palmX)
                       \/ (thumbTip.x > palmX /\ thumbIp.x > palmX)
                 THEN 1 ELSE 0
    IN up(1) + up(2) + up(3) + up(4) + thumb

\* ------------------------------------------------------------------ inputs
\* A face of 478 landmarks (refineFaceLandmarks: true), of which the program
\* reads the two eyes, the inner lips, the cheeks and landmark 1.  Each eye
\* is 100 wide and 2*h high (EAR = h/50); the lips are 2*m apart on a face
\* 200 wide (mouthOpen = m/100).
MkFace(hRight, hLeft, m, noseX) ==
    Arr(478,
        (33 :> Pt(300, 400)) @@ (133 :> Pt(400, 400)) @@
        (160 :> Pt(330, 400 - hRight)) @@ (144 :> Pt(330, 400 + hRight)) @@
        (158 :> Pt(370, 400 - hRight)) @@ (153 :> Pt(370, 400 + hRight)) @@
        (362 :> Pt(600, 400)) @@ (263 :> Pt(700, 400)) @@
        (385 :> Pt(630, 400 - hLeft)) @@ (380 :> Pt(630, 400 + hLeft)) @@
        (387 :> Pt(670, 400 - hLeft)) @@ (373 :> Pt(670, 400 + hLeft)) @@
        (13 :> Pt(500, 700 - m)) @@ (14 :> Pt(500, 700 + m)) @@
        (234 :> Pt(400, 500)) @@ (454 :> Pt(600, 500)) @@
        (1 :> Pt(noseX, 550)))

\* both eyes open, mouth shut
FaceRest == MkFace(15, 15, 0, 500)
\* right eye shut, left eye open, mouth open, head turned
FaceWinkTalk == MkFace(5, 15, 8, 520)

Faces == {Null, FaceRest, FaceWinkTalk}

\* A hand of 21 landmarks: wrist 0 at x = 500; finger i (1 = index .. 4 =
\* pinky) has its PIP at y = 500 and its tip above it when raised; the thumb
\* tip and IP lie left of the wrist when the thumb is out.
MkHand(raised, thumbOut) ==
    Arr(21,
        [k \in 0..20 |->
            IF k = 0 THEN Pt(500, 800)
            ELSE IF k = 4 THEN Pt(IF thumbOut THEN 400 ELSE 510, 650)
            ELSE IF k = 3 THEN Pt(IF thumbOut THEN 440 ELSE 505, 680)
            ELSE IF k \in {8, 12, 16, 20}
                 THEN Pt(500 + 5 * k, IF (k \div 4) - 1 \in raised THEN 300 ELSE 600)
            ELSE IF k \in {6, 10, 14, 18} THEN Pt(500 + 5 * k, 500)
            ELSE Pt(500 + 5 * k, 700)])

\* index finger and thumb: two fingers
HandTwo == MkHand({1}, TRUE)
\* index to pinky, thumb folded: four fingers
HandFour == MkHand({1, 2, 3, 4}, FALSE)

\* <<rightHandLandmarks, leftHandLandmarks>>: Holistic delivers each hand as
\* the list of its 21 landmarks, or nothing when the hand is not seen
HandPairs ==
    { <<Null, Null>>,
      <<HandTwo, Null>>,
      <<Null, HandFour>>,
      <<HandTwo, HandFour>> }

\* a pose of 33 landmarks, of which the program reads landmark 0
PoseNose == Arr(33, (0 :> Pt(480, 300)))
Poses == {Null, PoseNose}

Images == {"none", "img"}

\* the results objects handed to onResults
Results ==
    { [image |-> i, faceLandmarks |-> f, rightHandLandmarks |-> h[1],
       leftHandLandmarks |-> h[2], poseLandmarks |-> p] :
        i \in Images, f \in Faces, h \in HandPairs, p \in Poses }

\* before the first onResults call
NoResults == [image |-> "none", faceLandmarks |-> Null, rightHandLandmarks |-> Null,
              leftHandLandmarks |-> Null, poseLandmarks |-> Null]

\* ------------------------------------------------- onResults: classification
\* lines 120-126: right hand preferred, then left, each indexed with [0]
HandLandmarks(r) ==
    IF TruthyLength(r.rightHandLandmarks) THEN First(r.rightHandLandmarks)
    ELSE IF TruthyLength(r.leftHandLandmarks) THEN First(r.leftHandLandmarks)
    ELSE Null

\* lines 129-133: the argument of setFingerCount
FingerCountOf(r) ==
    IF IsLength21(HandLandmarks(r)) THEN countFingersFromHand(HandLandmarks(r)) ELSE 0

\* line 136: face && face.length >= 468
FaceUsable(face) == face.t = "arr" /\ face.len >= 468

\* lines 163-169: pose nose if present else face[1]
NoseOf(r) ==
    IF TruthyLength(r.poseLandmarks) THEN First(r.poseLandmarks)
    ELSE IF r.faceLandmarks.t = "arr" /\ r.faceLandmarks.len > 1
         THEN r.faceLandmarks.a[NOSE_FACE]
    ELSE Null

\* lines 171-182: setMoving is not called when there is a nose and no previous one
MovingAfter(moving, prev, nose) ==
    IF Truthy(nose)
    THEN IF Truthy(prev) THEN distance(nose, prev) > 3000 ELSE moving
    ELSE FALSE

\* The component's state and refs that onResults reads and writes.
AppState0 ==
    [fingerCount |-> 0, leftEyeOpen |-> TRUE, rightEyeOpen |-> TRUE,
     speaking |-> FALSE, moving |-> FALSE, mouthBuf |-> <<>>, lastNose |-> Null]

\* onResults, lines 120-182, without the else branch of lines 156-160: a
\* frame with no usable face leaves the eye states and speaking as they were
onResultsKeepFace(s, r) ==
    LET face == r.faceLandmarks
        ok == FaceUsable(face)
        buf == IF ok THEN PushMouth(s.mouthBuf, MouthOpen(face)) ELSE s.mouthBuf
        nose == NoseOf(r)
    IN [fingerCount |-> FingerCountOf(r),
        rightEyeOpen |-> IF ok THEN EarOpen(computeEAR(face, RIGHT_EYE))
                         ELSE s.rightEyeOpen,
        leftEyeOpen |-> IF ok THEN EarOpen(computeEAR(face, LEFT_EYE))
                        ELSE s.leftEyeOpen,
        speaking |-> IF ok THEN SpeakingOf(buf) ELSE s.speaking,
        mouthBuf |-> buf,
        moving |-> MovingAfter(s.moving, s.lastNose, nose),
        lastNose |-> IF Truthy(nose) THEN Pt(nose.x, nose.y) ELSE s.lastNose]

\* onResults, lines 120-182: the state and refs after the call on results r
onResultsState(s, r) ==
    LET face == r.faceLandmarks
        ok == FaceUsable(face)
        buf == IF ok THEN PushMouth(s.mouthBuf, MouthOpen(face)) ELSE s.mouthBuf
        nose == NoseOf(r)
    IN [fingerCount |-> FingerCountOf(r),
        rightEyeOpen |-> IF ok THEN EarOpen(computeEAR(face, RIGHT_EYE)) ELSE TRUE,
        leftEyeOpen |-> IF ok THEN EarOpen(computeEAR(face, LEFT_EYE)) ELSE TRUE,
        speaking |-> IF ok THEN SpeakingOf(buf) ELSE FALSE,
        mouthBuf |-> buf,
        moving |-> MovingAfter(s.moving, s.lastNose, nose),
        lastNose |-> IF Truthy(nose) THEN Pt(nose.x, nose.y) ELSE s.lastNose]

\* ------------------------------------------------------ onResults: drawing
\* What the canvas shows: the mirrored video frame, the landmark dots and
\* rings, the hand skeleton with its raised fingertips, and the HUD panel.
BlankCanvas ==
    [video |-> "none", rightEyeDots |-> "none", leftEyeDots |-> "none",
     mouthDots |-> "none", mouthRing |-> FALSE, eyeRings |-> FALSE,
     skeleton |-> FALSE, tipsUp |-> {}, hud |-> [drawn |-> FALSE]]

\* ctx.clearRect(0, 0, w, h) under the identity transform: every pixel is erased
clearRect(cv) == BlankCanvas

\* ctx.drawImage(results.image, ...) under the mirror transform
drawImage(cv, image) == [cv EXCEPT !.video = image]

\* drawHUD(ctx): the panel and the five lines of text, from the values v of
\* theme, fingerCount, ... in the scope of the function
drawHUD(cv, v) ==
    [cv EXCEPT !.hud =
        [drawn |-> TRUE,
         panel |-> IF v.theme = "dark" THEN "#000000" ELSE "#ffffff",
         fingers |-> v.fingerCount,
         leftEye |-> IF v.leftEyeOpen THEN "Open" ELSE "Closed",
         rightEye |-> IF v.rightEyeOpen THEN "Open" ELSE "Closed",
         speaking |-> IF v.speaking THEN "Yes" ELSE "No",
         moving |-> IF v.moving THEN "Yes" ELSE "No"]]

\* lines 343-356: the fingertips drawn as raised (tip above its PIP entry)
TipsUp(hand) == {i \in 1..5 : hand.a[TIP[i]].y < hand.a[PIP[i]].y}

\* drawOverlay(ctx, {face, handLandmarks}), with v as in drawHUD
drawOverlay(cv, v, face, handLandmarks) ==
    LET c0 == clearRect(cv)
        c1 == IF Truthy(face)
              THEN [c0 EXCEPT
                      !.rightEyeDots = IF v.rightEyeOpen THEN "green" ELSE "red",
                      !.leftEyeDots = IF v.leftEyeOpen THEN "green" ELSE "red",
                      !.mouthDots = IF v.speaking THEN "green" ELSE "amber",
                      !.mouthRing = v.speaking,
                      !.eyeRings = (~v.leftEyeOpen) \/ (~v.rightEyeOpen)]
              ELSE c0
        c2 == IF IsLength21(handLandmarks)
              THEN [c1 EXCEPT !.skeleton = TRUE, !.tipsUp = TipsUp(handLandmarks)]
              ELSE c1
    IN drawHUD(c2, v)

\* onResults, lines 102-113 and 185: what the canvas shows after the call
onResultsCanvas(cv, v, r) ==
    LET c0 == clearRect(cv)
        c1 == IF r.image # "none" THEN drawImage(c0, r.image) ELSE c0
    IN drawOverlay(c1, v, r.faceLandmarks, HandLandmarks(r))

\* -------------------------------------------------- theme, effect, cleanup
\* a click that always lands on "light"
NextThemeStuck(t) == IF t = "dark" THEN "light" ELSE "light"

\* setTheme(t => t === "dark" ? "light" : "dark")
NextTheme(t) == IF t = "dark" THEN "light" ELSE "dark"

\* the cleanup without its first try/catch: an exception of camera.stop()
\* escapes and holistic.close() is never reached
cleanupNoTry(stopThrows, closeThrows) ==
    [camera |-> IF stopThrows THEN "stopFailed" ELSE "stopped",
     holistic |-> IF stopThrows THEN "open"
                  ELSE IF closeThrows THEN "closeFailed" ELSE "closed",
     escaped |-> stopThrows]

\* lines 80-81: try { camera.stop() } catch {}  try { holistic.close() } catch {}
\* camera: "started" until stop() is called, then "stopped", or "stopFailed"
\* when the call threw; holistic likewise; escaped: an exception left the cleanup
cleanup(stopThrows, closeThrows) ==
    [camera |-> IF stopThrows THEN "stopFailed" ELSE "stopped",
     holistic |-> IF closeThrows THEN "closeFailed" ELSE "closed",
     escaped |-> FALSE]

\* ------------------------------------------------------------------- state
VARIABLES
    theme, fingerCount, leftEyeOpen, rightEyeOpen, speaking, moving,  \* useState
    mouthBuf, lastNose, pulse,       \* mouthBufRef, lastNoseRef, pulseRef
    mounted, rafPending,             \* the effect's flag; an animate() is scheduled
    camera, holistic, escaped,       \* the two handles; a cleanup exception
    canvas,                          \* what the canvas shows
    closure,                         \* the render values the registered onResults sees
    results, nframes,                \* the last results object; calls so far
    lastOp,                          \* the handler that ran last
    pair                             \* SpecPair: two runs of onResults side by side

appVars == <<theme, fingerCount, leftEyeOpen, rightEyeOpen, speaking, moving,
             mouthBuf, lastNose, pulse, mounted, rafPending, camera, holistic,
             escaped, canvas, closure, results, nframes, lastOp>>

vars == <<theme, fingerCount, leftEyeOpen, rightEyeOpen, speaking, moving,
          mouthBuf, lastNose, pulse, mounted, rafPending, camera, holistic,
          escaped, canvas, closure, results, nframes, lastOp, pair>>

\* the state and refs as the record onResultsState works on
AppState ==
    [fingerCount |-> fingerCount, leftEyeOpen |-> leftEyeOpen,
     rightEyeOpen |-> rightEyeOpen, speaking |-> speaking, moving |-> moving,
     mouthBuf |-> mouthBuf, lastNose |-> lastNose]

\* the values of the current render
RenderValues ==
    [theme |-> theme, fingerCount |-> fingerCount, leftEyeOpen |-> leftEyeOpen,
     rightEyeOpen |-> rightEyeOpen, speaking |-> speaking, moving |-> moving]

Pair0 == [a |-> AppState0, b |-> AppState0, na |-> 0, nb |-> 0, synced |-> FALSE]

\* After the first render and its effect: Holistic created, onResults of the
\* first render registered (line 52; the effect has no dependencies, line 84,
\* so it is never registered again), the camera started, animate() called once.
Init ==
    /\ theme = "dark"
    /\ fingerCount = 0
    /\ leftEyeOpen = TRUE
    /\ rightEyeOpen = TRUE
    /\ speaking = FALSE
    /\ moving = FALSE
    /\ mouthBuf = <<>>
    /\ lastNose = Null
    /\ pulse = 1
    /\ mounted = TRUE
    /\ rafPending = TRUE
    /\ camera = "started"
    /\ holistic = "open"
    /\ escaped = FALSE
    /\ canvas = BlankCanvas
    /\ closure = [theme |-> "dark", fingerCount |-> 0, leftEyeOpen |-> TRUE,
                  rightEyeOpen |-> TRUE, speaking |-> FALSE, moving |-> FALSE]
    /\ results = NoResults
    /\ nframes = 0
    /\ lastOp = "mount"
    /\ pair = Pair0

\* ----------------------------------------------------------------- actions
\* Holistic calls the registered onResults with r (while the component is
\* mounted: the cleanup stops the camera that feeds Holistic and closes it)
OnResults ==
    /\ mounted
    /\ nframes < MaxFrames
    /\ \E r \in Results :
         \E t \in {onResultsState(AppState, r)} :
            /\ fingerCount' = t.fingerCount
            /\ leftEyeOpen' = t.leftEyeOpen
            /\ rightEyeOpen' = t.rightEyeOpen
            /\ speaking' = t.speaking
            /\ moving' = t.moving
            /\ mouthBuf' = t.mouthBuf
            /\ lastNose' = t.lastNose
            /\ canvas' = onResultsCanvas(canvas, closure, r)
            /\ results' = r
    /\ nframes' = nframes + 1
    /\ lastOp' = "onResults"
    /\ UNCHANGED <<theme, pulse, mounted, rafPending, camera, holistic, escaped,
                   closure, pair>>

\* a click on the theme button
ToggleTheme ==
    /\ mounted
    /\ theme' = NextTheme(theme)
    /\ lastOp' = "click"
    /\ UNCHANGED <<fingerCount, leftEyeOpen, rightEyeOpen, speaking, moving,
                   mouthBuf, lastNose, pulse, mounted, rafPending, camera,
                   holistic, escaped, canvas, closure, results, nframes, pair>>

\* a scheduled animate() runs: pulseRef.current += 0.04 (pulse counts the
\* increments); if (mounted) requestAnimationFrame(animate)
Animate ==
    /\ rafPending
    /\ pulse < MaxPulse
    /\ pulse' = pulse + 1
    /\ rafPending' = mounted
    /\ lastOp' = "animate"
    /\ UNCHANGED <<theme, fingerCount, leftEyeOpen, rightEyeOpen, speaking, moving,
                   mouthBuf, lastNose, mounted, camera, holistic, escaped, canvas,
                   closure, results, nframes, pair>>

\* the component unmounts: the effect's cleanup runs
Cleanup ==
    /\ mounted
    /\ mounted' = FALSE
    /\ \E stopThrows \in BOOLEAN, closeThrows \in BOOLEAN :
         \E c \in {cleanup(stopThrows, closeThrows)} :
            /\ camera' = c.camera
            /\ holistic' = c.holistic
            /\ escaped' = c.escaped
    /\ lastOp' = "cleanup"
    /\ UNCHANGED <<theme, fingerCount, leftEyeOpen, rightEyeOpen, speaking, moving,
                   mouthBuf, lastNose, pulse, rafPending, canvas, closure, results,
                   nframes, pair>>

Next == OnResults \/ ToggleTheme \/ Animate \/ Cleanup

Spec == Init /\ [][Next]_vars

\* ------------------------------------------- two runs of onResults, paired
\* the classification never reads results.image
PairResults == {r \in Results : r.image = "img"}

\* run a alone receives a frame
FrameA ==
    /\ pair.na < MaxPairFrames
    /\ \E r \in PairResults :
         pair' = [pair EXCEPT !.a = onResultsState(pair.a, r), !.na = @ + 1,
                              !.synced = FALSE]
    /\ UNCHANGED appVars

\* run b alone receives a frame
FrameB ==
    /\ pair.nb < MaxPairFrames
    /\ \E r \in PairResults :
         pair' = [pair EXCEPT !.b = onResultsState(pair.b, r), !.nb = @ + 1,
                              !.synced = FALSE]
    /\ UNCHANGED appVars

\* both runs receive the same results object
FrameBoth ==
    /\ pair.na < MaxPairFrames
    /\ pair.nb < MaxPairFrames
    /\ \E r \in PairResults :
         pair' = [pair EXCEPT !.a = onResultsState(pair.a, r),
                              !.b = onResultsState(pair.b, r),
                              !.na = @ + 1, !.nb = @ + 1, !.synced = TRUE]
    /\ UNCHANGED appVars

NextPair == FrameA \/ FrameB \/ FrameBoth

SpecPair == Init /\ [][NextPair]_vars

\* ------------------------------------------------------------------ claims

\* C1 (as stated): when two runs with any two histories of earlier onResults
\* calls receive the same results object, the call leaves the same
\* fingerCount, leftEyeOpen, rightEyeOpen, speaking and moving in both.
C1_FrameAloneDecidesAll ==
    pair.synced =>
        /\ pair.a.fingerCount = pair.b.fingerCount
        /\ pair.a.leftEyeOpen = pair.b.leftEyeOpen
        /\ pair.a.rightEyeOpen = pair.b.rightEyeOpen
        /\ pair.a.speaking = pair.b.speaking
        /\ pair.a.moving = pair.b.moving

\* C1 (amended): when two runs with any two histories receive the same
\* results object, the call leaves the same fingerCount, leftEyeOpen and
\* rightEyeOpen in both; speaking and moving may differ with the history.
C1_FrameAloneDecidesGeometry ==
    pair.synced =>
        /\ pair.a.fingerCount = pair.b.fingerCount
        /\ pair.a.leftEyeOpen = pair.b.leftEyeOpen
        /\ pair.a.rightEyeOpen = pair.b.rightEyeOpen

\* the same frame, with a shut eye, after histories that left different mouth
\* buffers and nose positions, and a different verdict on speaking and moving
C1_Witness ==
    /\ pair.synced
    /\ ~pair.a.rightEyeOpen
    /\ pair.a.mouthBuf # pair.b.mouthBuf
    /\ pair.a.speaking # pair.b.speaking
    /\ pair.a.moving # pair.b.moving

\* the HUD text and the rings of canvas cv are those of the values v
ShowsValues(cv, v, face) ==
    /\ cv.hud.drawn
    /\ cv.hud.fingers = v.fingerCount
    /\ cv.hud.leftEye = (IF v.leftEyeOpen THEN "Open" ELSE "Closed")
    /\ cv.hud.rightEye = (IF v.rightEyeOpen THEN "Open" ELSE "Closed")
    /\ cv.hud.speaking = (IF v.speaking THEN "Yes" ELSE "No")
    /\ cv.hud.moving = (IF v.moving THEN "Yes" ELSE "No")
    /\ Truthy(face) =>
         /\ cv.mouthRing = v.speaking
         /\ cv.eyeRings = ((~v.leftEyeOpen) \/ (~v.rightEyeOpen))

\* C2: from the second onResults call on, the HUD and the rings a call draws
\* show the values the previous call set, or those this call sets, and so
\* not the values of the first render once a call has changed them.
C2_HudShowsDetected ==
    [][(nframes >= 1 /\ nframes' = nframes + 1) =>
          \/ ShowsValues(canvas', RenderValues, results'.faceLandmarks)
          \/ ShowsValues(canvas', RenderValues', results'.faceLandmarks)]_vars

\* C3: after an onResults call whose rightHandLandmarks (or, with no right
\* hand, leftHandLandmarks) is itself the list of 21 landmarks of a hand,
\* fingerCount is countFingersFromHand of that list.
C3_FlatHandCounted ==
    nframes > 0 =>
        /\ IsLength21(results.rightHandLandmarks) =>
             fingerCount = countFingersFromHand(results.rightHandLandmarks)
        /\ (~Truthy(results.rightHandLandmarks)
              /\ IsLength21(results.leftHandLandmarks)) =>
             fingerCount = countFingersFromHand(results.leftHandLandmarks)

\* C4: theme is always "dark" or "light"; a click on the theme button changes
\* it to the other value and leaves fingerCount, leftEyeOpen, rightEyeOpen,
\* speaking, moving, the mouth buffer and the last nose position unchanged.
C4_ToggleFlipsThemeOnly ==
    /\ [](theme \in {"dark", "light"})
    /\ [][lastOp' = "click" =>
            /\ theme' \in {"dark", "light"}
            /\ theme' # theme
            /\ UNCHANGED <<fingerCount, leftEyeOpen, rightEyeOpen, speaking,
                           moving, mouthBuf, lastNose>>]_vars

\* a click has brought the theme back to "dark" with detections in place
C4_Witness ==
    /\ lastOp = "click"
    /\ theme = "dark"
    /\ ~rightEyeOpen
    /\ speaking
    /\ mouthBuf # <<>>
    /\ lastNose # Null

\* C5: after an onResults call whose results.image is present, the canvas
\* shows that mirrored video frame with the HUD drawn on top of it.
C5_VideoUnderOverlay ==
    (nframes > 0 /\ results.image # "none") =>
        /\ canvas.video = results.image
        /\ canvas.hud.drawn

\* C6: once the cleanup has run, camera.stop() and holistic.close() have both
\* been called and no exception has escaped; animate() runs at most once
\* more, only if it was already scheduled, and schedules nothing.
C6_CleanupReleases ==
    /\ [](~mounted => /\ camera \in {"stopped", "stopFailed"}
                      /\ holistic \in {"closed", "closeFailed"}
                      /\ ~escaped)
    /\ [][~mounted => /\ pulse' # pulse => (rafPending /\ ~rafPending')
                      /\ ~rafPending => ~rafPending']_vars

\* camera.stop() threw, holistic.close() was still called, and the animate()
\* that was scheduled has run its last time
C6_Witness ==
    /\ ~mounted
    /\ camera = "stopFailed"
    /\ holistic = "closed"
    /\ lastOp = "animate"
    /\ ~rafPending

====
